---------------------------- MODULE Spec2Model ----------------------------
(***************************************************************************)
(* The verification-code, registration, login and refresh-token state      *)
(* machine of the authentication service (authentication/views.py,         *)
(* serializers.py, core/exceptions.py).                                    *)
(*                                                                         *)
(* The persistent store is (users, codes, tokens, blacklist).  Every       *)
(* handler is                                                              *)
(* split at its database statements: the store runs in autocommit mode     *)
(* (settings.py sets no ATOMIC_REQUESTS and the views open no              *)
(* transaction), so statements of concurrent requests interleave.          *)
(* Serializer validation that touches no table is folded into the first    *)
(* database statement of the handler.                                      *)
(***************************************************************************)
EXTENDS Integers, Sequences, FiniteSets, TLC

VARIABLES
    users,      \* table authentication_user, in insertion (id) order
    codes,      \* table authentication_verificationcode, in insertion order
    now,        \* wall clock, in minutes
    pc,         \* per worker: position inside the handler it is running
    loc,        \* per worker: the handler's local variables
    out,        \* the response written by the step just taken, if it ended a request
    verified,   \* history: emails for which VerifyCode answered 200
    tokens,     \* the refresh tokens signed so far, in order of issue (jti)
    blacklist,  \* table token_blacklist_blacklistedtoken: the jti's revoked
    before      \* history, per worker: the tables when its request began

vars == <<users, codes, now, pc, loc, out, verified, tokens, blacklist, before>>

---------------------------------------------------------------------------
(* Bounds of the model *)

MaxRows == 2
MaxUsers == 3
MaxNow == 10
MaxTokens == 3
MaxLate == 60

\* the clock advances by one of these amounts
TickSteps == { 10 }

\* two requests can be in progress at once
Workers == { 1, 2 }

(* Program constants *)

VERIFICATION_CODE_EXPIRY_MINUTES == 10
MIN_LENGTH == 8
ACCESS_TOKEN_LIFETIME == 60
REFRESH_TOKEN_LIFETIME == 10080

---------------------------------------------------------------------------
(* Request inputs *)

RawEmails == { <<"a", "@", "x">>, <<"A", "@", "x">>, <<"b", "@", "x">> }

\* one address in two spellings, for the requests that race
RaceEmails == { <<"a", "@", "x">>, <<"A", "@", "x">> }

Codes == { "12345", "00000" }

GoodPw  == <<"g", "0", "0", "d", "p", "a", "s", "s">>
NumPw   == <<"1", "2", "3", "4", "5", "6", "7", "8">>
ShortPw == <<"p", "w", "1">>

Passwords == { GoodPw, NumPw, ShortPw }

\* what a client sends as password_confirm: the password again, or another one
Confirmations(pw) == { pw, IF pw = GoodPw THEN ShortPw ELSE GoodPw }

Digits == { "0", "1", "2", "3", "4", "5", "6", "7", "8", "9" }

\* the address taken as the client wrote it
Lower_AsGiven(s) == s

\* str.lower(), per character
LowerChar(c) ==
    CASE c = "A" -> "a"
      [] c = "B" -> "b"
      [] c = "X" -> "x"
      [] OTHER   -> c

Lower(s) == [i \in DOMAIN s |-> LowerChar(s[i])]

MsgTooShort == "This password is too short. It must contain at least 8 characters."
MsgNumeric  == "This password is entirely numeric."

\* django.contrib.auth.password_validation.validate_password under
\* AUTH_PASSWORD_VALIDATORS: MinimumLengthValidator and
\* NumericPasswordValidator.  (UserAttributeSimilarityValidator needs a user
\* object and the serializer passes none; the common-password list is data
\* of the framework and is not modelled.)
PasswordError(p) ==
    IF Len(p) < MIN_LENGTH THEN MsgTooShort
    ELSE IF \A i \in DOMAIN p : p[i] \in Digits THEN MsgNumeric
    ELSE "ok"

\* the validate_email method of each serializer
SendCodeEmail_AsGiven(value) == value

SendCodeEmail(value) == Lower(value)
VerifyCodeEmail(value) == Lower(value)

RegisterEmail_AsGiven(value) == value

RegisterEmail(value) == Lower(value)

---------------------------------------------------------------------------
(* Response texts, as the views write them *)

MsgUserExists   == "User with this email already exists."
MsgMailFailed   == "Failed to send email. Please try again."
MsgCodeSent     == "Verification code sent to email."
MsgExpired      == "Verification code has expired. Please request a new one."
MsgInvalidCode  == "Invalid verification code."
MsgVerified     == "Code verified successfully. Please set your password."
MsgNotVerified  == "Email not verified. Please verify your email first."
MsgMismatch     == "Passwords do not match."
MsgRegistered   == "Registration successful."
MsgIntegrity    == "duplicate key value violates unique constraint"

MsgUserFound     == "User exists. Please enter your password."
MsgNewUser       == "New user. Verification code will be sent."
MsgBadLogin      == "Invalid email or password."
MsgDisabled      == "User account is disabled."
MsgLoginUnverified == "Email is not verified."
MsgLoggedIn      == "Login successful."
MsgLoggedOut     == "Logout successful."
MsgBadRefresh    == "Invalid token or token already blacklisted."
MsgNoCredentials == "Authentication credentials were not provided."
MsgTokenNotValid == "Token is invalid or expired"
MsgBlacklisted   == "Token is blacklisted"
MsgBadAccess     == "Given token not valid for any token type"
MsgInactive      == "User is inactive"
MsgNoActiveAccount == "No active account found with the given credentials"

NoLoc == [email |-> <<>>]
NoOut == [op |-> "none", email |-> <<>>, status |-> 0, message |-> "",
          code |-> "", token |-> 0]

\* a success response: the body carries no code field; token is the jti of
\* the refresh token in the body, 0 when the body has none
Reply(o, e, s, m) ==
    [op |-> o, email |-> e, status |-> s, message |-> m, code |-> "", token |-> 0]

\* EXCEPTION_CODE_MAP.get(exc.__class__.__name__, exc.__class__.__name__)
ExceptionCode(cls) ==
    CASE cls = "ValidationError"      -> "validation_error"
      [] cls = "NotAuthenticated"     -> "not_authenticated"
      [] cls = "AuthenticationFailed" -> "invalid_credentials"
      [] cls = "PermissionDenied"     -> "permission_denied"
      [] cls = "NotFound"             -> "not_found"
      [] cls = "MethodNotAllowed"     -> "method_not_allowed"
      [] OTHER                        -> cls

\* custom_exception_handler on an exception the framework turns into a
\* response of status s
Failure(o, e, cls, s, m) ==
    [op |-> o, email |-> e, status |-> s, message |-> m,
     code |-> ExceptionCode(cls), token |-> 0]

\* a serializers.ValidationError raised by a serializer or a view
Invalid(o, e, m) == Failure(o, e, "ValidationError", 400, m)

\* custom_exception_handler on an exception the framework does not handle
ServerError(o, e, m) ==
    [op |-> o, email |-> e, status |-> 500, message |-> m,
     code |-> "server_error", token |-> 0]

\* the tables a request can write, as one value
Tables == <<users, codes, blacklist>>

NoTables == <<>>

---------------------------------------------------------------------------
(* Queries on the store *)

\* User.objects.filter(email=email).exists()
UserExists(email) == \E i \in DOMAIN users : users[i].email = email

\* VerificationCode.objects.filter(email=email, code=code, is_used=False)
Matching(email, code) ==
    { i \in DOMAIN codes : /\ codes[i].email = email
                           /\ codes[i].code = code
                           /\ ~codes[i].is_used }

\* .latest("created_at"): created_at is set on insert, so the latest row is
\* the one inserted last
Latest(S) == CHOOSE i \in S : \A j \in S : j <= i

\* VerificationCode.is_valid()
IsValid(row) == ~row.is_used /\ now < row.expires_at

\* the lookup without its is_used=True condition
HasUsedCode_AnyRow(email) ==
    \E i \in DOMAIN codes : codes[i].email = email

\* the lookup that accepts a used row only until its expiry
HasUsedCode_Fresh(email) ==
    \E i \in DOMAIN codes :
        codes[i].email = email /\ codes[i].is_used /\ now < codes[i].expires_at

\* VerificationCode.objects.filter(email=email, is_used=True).order_by("-created_at").first()
HasUsedCode(email) ==
    \E i \in DOMAIN codes : codes[i].email = email /\ codes[i].is_used

\* the update filtered on is_used=True: it changes no row
InvalidateUnused_NoOp(email) == codes

\* the update written as a delete of the superseded rows
InvalidateUnused_Delete(email) ==
    SelectSeq(codes, LAMBDA r : ~(r.email = email /\ ~r.is_used))

\* VerificationCode.objects.filter(email=email, is_used=False).update(is_used=True)
InvalidateUnused(email) ==
    [i \in DOMAIN codes |->
        IF codes[i].email = email /\ ~codes[i].is_used
        THEN [codes[i] EXCEPT !.is_used = TRUE]
        ELSE codes[i]]

\* VerificationCode.generate_code(): any 5-digit string
GeneratedCodes == Codes

\* the unique index on authentication_user.email
UniqueEmailHolds(email) == ~UserExists(email)

---------------------------------------------------------------------------
Init ==
    /\ users = <<>>
    /\ codes = <<>>
    /\ now = 0
    /\ pc = [p \in Workers |-> "idle"]
    /\ loc = [p \in Workers |-> NoLoc]
    /\ out = NoOut
    /\ verified = {}
    /\ tokens = <<>>
    /\ blacklist = {}
    /\ before = [p \in Workers |-> NoTables]

\* the handler returns response r
Finish(p, r) ==
    /\ pc' = [pc EXCEPT ![p] = "idle"]
    /\ loc' = [loc EXCEPT ![p] = NoLoc]
    /\ out' = r
    /\ before' = [before EXCEPT ![p] = NoTables]

\* the handler goes on to its next statement
Goto(p, label, l) ==
    /\ pc' = [pc EXCEPT ![p] = label]
    /\ loc' = [loc EXCEPT ![p] = l]
    /\ out' = NoOut
    /\ before' = [before EXCEPT ![p] = IF pc[p] = "idle" THEN Tables ELSE @]

\* requests that will still insert a code row
Inserting == { q \in Workers : pc[q] \in {"send_invalidate", "send_create"} }

---------------------------------------------------------------------------
(* SendVerificationCodeView.post *)

\* validate_email without the test for a registered address
SendCodeStart_NoUserCheck(p, e) ==
    /\ pc[p] = "idle"
    /\ Len(codes) + Cardinality(Inserting) < MaxRows
    /\ Goto(p, "send_invalidate", [email |-> SendCodeEmail(e)])
    /\ UNCHANGED <<users, codes, now, verified, tokens, blacklist>>

\* lines 199-202, serializer.is_valid(): validate_email lowercases the
\* address and rejects a registered one
SendCodeStart(p, e) ==
    /\ pc[p] = "idle"
    /\ IF UserExists(SendCodeEmail(e))
       THEN Finish(p, Invalid("send_code", SendCodeEmail(e), MsgUserExists))
       ELSE /\ Len(codes) + Cardinality(Inserting) < MaxRows
            /\ Goto(p, "send_invalidate", [email |-> SendCodeEmail(e)])
    /\ UNCHANGED <<users, codes, now, verified, tokens, blacklist>>

\* line 204
SendCodeInvalidate(p) ==
    /\ pc[p] = "send_invalidate"
    /\ codes' = InvalidateUnused(loc[p].email)
    /\ Goto(p, "send_create", loc[p])
    /\ UNCHANGED <<users, now, verified, tokens, blacklist>>

\* lines 206-213
SendCodeCreate(p, c) ==
    /\ pc[p] = "send_create"
    /\ codes' = Append(codes, [email      |-> loc[p].email,
                               code       |-> c,
                               is_used    |-> FALSE,
                               expires_at |-> now + VERIFICATION_CODE_EXPIRY_MINUTES])
    /\ Goto(p, "send_mail", loc[p])
    /\ UNCHANGED <<users, now, verified, tokens, blacklist>>

\* the failed dispatch undoing the insert
SendCodeMail_RollsBack(p, delivered) ==
    /\ pc[p] = "send_mail"
    /\ IF delivered
       THEN /\ Finish(p, Reply("send_code", loc[p].email, 200, MsgCodeSent))
            /\ UNCHANGED codes
       ELSE /\ Finish(p, Invalid("send_code", loc[p].email, MsgMailFailed))
            /\ codes' = SubSeq(codes, 1, Len(codes) - 1)
    /\ UNCHANGED <<users, now, verified, tokens, blacklist>>

\* lines 215-233: send_mail delivers or raises
SendCodeMail(p, delivered) ==
    /\ pc[p] = "send_mail"
    /\ IF delivered
       THEN Finish(p, Reply("send_code", loc[p].email, 200, MsgCodeSent))
       ELSE Finish(p, Invalid("send_code", loc[p].email, MsgMailFailed))
    /\ UNCHANGED <<users, codes, now, verified, tokens, blacklist>>

---------------------------------------------------------------------------
(* VerifyCodeView.post *)

\* the row marked used before the expiry test instead of after it
VerifyCodeStart_MarksExpired(p, e, c) ==
    /\ pc[p] = "idle"
    /\ LET email == VerifyCodeEmail(e)
           m == Matching(email, c)
       IN  IF m = {}
           THEN /\ Finish(p, Invalid("verify_code", email, MsgInvalidCode))
                /\ UNCHANGED codes
           ELSE IF ~IsValid(codes[Latest(m)])
                THEN /\ Finish(p, Invalid("verify_code", email, MsgExpired))
                     /\ codes' = [codes EXCEPT ![Latest(m)].is_used = TRUE]
                ELSE /\ Goto(p, "verify_save", [email |-> email, row |-> Latest(m)])
                     /\ UNCHANGED codes
    /\ UNCHANGED <<users, now, verified, tokens, blacklist>>

\* the lookup that tells a used code from one that was never issued
VerifyCodeStart_TellsUsed(p, e, c) ==
    /\ pc[p] = "idle"
    /\ LET email == VerifyCodeEmail(e)
           m == Matching(email, c)
       IN  IF m = {}
           THEN IF \E i \in DOMAIN codes : codes[i].email = email /\ codes[i].code = c
                THEN Finish(p, Invalid("verify_code", email, MsgExpired))
                ELSE Finish(p, Invalid("verify_code", email, MsgInvalidCode))
           ELSE IF ~IsValid(codes[Latest(m)])
                THEN Finish(p, Invalid("verify_code", email, MsgExpired))
                ELSE Goto(p, "verify_save", [email |-> email, row |-> Latest(m)])
    /\ UNCHANGED <<users, codes, now, verified, tokens, blacklist>>

\* lines 284-298: validation, the lookup and the expiry test
VerifyCodeStart(p, e, c) ==
    /\ pc[p] = "idle"
    /\ LET email == VerifyCodeEmail(e)
           m == Matching(email, c)
       IN  IF m = {}
           THEN Finish(p, Invalid("verify_code", email, MsgInvalidCode))
           ELSE IF ~IsValid(codes[Latest(m)])
                THEN Finish(p, Invalid("verify_code", email, MsgExpired))
                ELSE Goto(p, "verify_save", [email |-> email, row |-> Latest(m)])
    /\ UNCHANGED <<users, codes, now, verified, tokens, blacklist>>

\* the write as an update of every row that carries the code
VerifyCodeSave_EveryRowOfCode(p) ==
    /\ pc[p] = "verify_save"
    /\ codes' = [i \in DOMAIN codes |->
                    IF codes[i].code = codes[loc[p].row].code
                    THEN [codes[i] EXCEPT !.is_used = TRUE] ELSE codes[i]]
    /\ verified' = verified \cup {loc[p].email}
    /\ Finish(p, Reply("verify_code", loc[p].email, 200, MsgVerified))
    /\ UNCHANGED <<users, now, tokens, blacklist>>

\* lines 303-309: the row object read earlier is written back with is_used set
VerifyCodeSave(p) ==
    /\ pc[p] = "verify_save"
    /\ codes' = [codes EXCEPT ![loc[p].row].is_used = TRUE]
    /\ verified' = verified \cup {loc[p].email}
    /\ Finish(p, Reply("verify_code", loc[p].email, 200, MsgVerified))
    /\ UNCHANGED <<users, now, tokens, blacklist>>

---------------------------------------------------------------------------
(* RegisterView.post *)

\* validate() without the comparison of the two passwords
RegisterValidate_NoConfirm(pw, confirm) ==
    IF PasswordError(pw) # "ok" THEN PasswordError(pw) ELSE "ok"

\* RegisterSerializer: the field validators (validate_password on password,
\* validate_email) run first, the object-level validate() after them
RegisterValidate(pw, confirm) ==
    IF PasswordError(pw) # "ok" THEN PasswordError(pw)
    ELSE IF pw # confirm THEN MsgMismatch
    ELSE "ok"

\* lines 375-382
RegisterStart(p, e, pw, confirm) ==
    /\ pc[p] = "idle"
    /\ LET email == RegisterEmail(e) IN
       IF RegisterValidate(pw, confirm) # "ok"
       THEN Finish(p, Invalid("register", email, RegisterValidate(pw, confirm)))
       ELSE IF ~HasUsedCode(email)
            THEN Finish(p, Invalid("register", email, MsgNotVerified))
            ELSE Goto(p, "register_exists", [email |-> email, password |-> pw])
    /\ UNCHANGED <<users, codes, now, verified, tokens, blacklist>>

\* lines 384-385
RegisterExists(p) ==
    /\ pc[p] = "register_exists"
    /\ IF UserExists(loc[p].email)
       THEN Finish(p, Invalid("register", loc[p].email, MsgUserExists))
       ELSE Goto(p, "register_save", loc[p])
    /\ UNCHANGED <<users, codes, now, verified, tokens, blacklist>>

\* a pair that names the first account whoever it is issued for
TokenFor_FirstUser(uid) == [user |-> 1, exp |-> now + REFRESH_TOKEN_LIFETIME]

\* get_tokens_for_user: RefreshToken.for_user(user) signs a refresh token
\* for the user's id, expiring REFRESH_TOKEN_LIFETIME from now; the access
\* token of the pair is derived from it
TokenFor(uid) == [user |-> uid, exp |-> now + REFRESH_TOKEN_LIFETIME]

\* the user created with is_verified left at its default
RegisterSave_Unverified(p) ==
    /\ pc[p] = "register_save"
    /\ Len(users) < MaxUsers
    /\ Len(tokens) < MaxTokens
    /\ IF UniqueEmailHolds(loc[p].email)
       THEN /\ users' = Append(users, [email       |-> loc[p].email,
                                       password    |-> loc[p].password,
                                       is_active   |-> TRUE,
                                       is_verified |-> FALSE])
            /\ tokens' = Append(tokens, TokenFor(Len(users) + 1))
            /\ Finish(p, [Reply("register", loc[p].email, 201, MsgRegistered)
                             EXCEPT !.token = Len(tokens) + 1])
       ELSE /\ UNCHANGED <<users, tokens>>
            /\ Finish(p, ServerError("register", loc[p].email, MsgIntegrity))
    /\ UNCHANGED <<codes, now, verified, blacklist>>

\* lines 387-398: serializer.save() inserts the user; the unique index on
\* email rejects a duplicate, which surfaces as an unhandled exception
RegisterSave(p) ==
    /\ pc[p] = "register_save"
    /\ Len(users) < MaxUsers
    /\ Len(tokens) < MaxTokens
    /\ IF UniqueEmailHolds(loc[p].email)
       THEN /\ users' = Append(users, [email       |-> loc[p].email,
                                       password    |-> loc[p].password,
                                       is_active   |-> TRUE,
                                       is_verified |-> TRUE])
            /\ tokens' = Append(tokens, TokenFor(Len(users) + 1))
            /\ Finish(p, [Reply("register", loc[p].email, 201, MsgRegistered)
                             EXCEPT !.token = Len(tokens) + 1])
       ELSE /\ UNCHANGED <<users, tokens>>
            /\ Finish(p, ServerError("register", loc[p].email, MsgIntegrity))
    /\ UNCHANGED <<codes, now, verified, blacklist>>

---------------------------------------------------------------------------
(* CheckEmailView.post *)

\* CheckEmailSerializer.validate_email
CheckEmailAddress(value) == Lower(value)

\* the lookup made on the address as the client wrote it
CheckEmail_AsGiven(p, e) ==
    /\ pc[p] = "idle"
    /\ Finish(p, Reply("check_email", e, 200,
                       IF UserExists(e) THEN MsgUserFound ELSE MsgNewUser))
    /\ UNCHANGED <<users, codes, now, verified, tokens, blacklist>>

\* lines 84-94: the validated address is lowercased once more (line 87);
\* the two messages stand for exists = true and exists = false
CheckEmail(p, e) ==
    /\ pc[p] = "idle"
    /\ LET email == Lower(CheckEmailAddress(e)) IN
       Finish(p, Reply("check_email", email, 200,
                       IF UserExists(email) THEN MsgUserFound ELSE MsgNewUser))
    /\ UNCHANGED <<users, codes, now, verified, tokens, blacklist>>

---------------------------------------------------------------------------
(* LoginView.post *)

\* the user row of an email (the email column is unique)
UserByEmail(email) == CHOOSE i \in DOMAIN users : users[i].email = email

\* django.contrib.auth.authenticate under the default ModelBackend (the
\* settings name no AUTHENTICATION_BACKENDS): the user of that email when
\* the password matches the stored hash and user_can_authenticate(user)
\* holds, i.e. is_active is set; 0 stands for None
Authenticate(email, password) ==
    IF ~UserExists(email) THEN 0
    ELSE LET i == UserByEmail(email) IN
         IF users[i].password = password /\ users[i].is_active THEN i ELSE 0

\* LoginSerializer.validate, lines 32-50
LoginValidate(e, password) ==
    LET user == Authenticate(Lower(e), password) IN
    IF user = 0 THEN MsgBadLogin
    ELSE IF ~users[user].is_active THEN MsgDisabled
    ELSE IF ~users[user].is_verified THEN MsgLoginUnverified
    ELSE "ok"

\* lines 138-149
Login(p, e, password) ==
    /\ pc[p] = "idle"
    /\ IF LoginValidate(e, password) # "ok"
       THEN /\ Finish(p, Invalid("login", Lower(e), LoginValidate(e, password)))
            /\ UNCHANGED tokens
       ELSE /\ Len(tokens) < MaxTokens
            /\ tokens' = Append(tokens, TokenFor(Authenticate(Lower(e), password)))
            /\ Finish(p, [Reply("login", Lower(e), 200, MsgLoggedIn)
                             EXCEPT !.token = Len(tokens) + 1])
    /\ UNCHANGED <<users, codes, now, verified, blacklist>>

---------------------------------------------------------------------------
(* Tokens: rest_framework_simplejwt with the token_blacklist app installed *)

\* the verification without the blacklist lookup
TokenError_IgnoresBlacklist(t) ==
    IF t \notin DOMAIN tokens THEN MsgTokenNotValid
    ELSE IF now >= tokens[t].exp THEN MsgTokenNotValid
    ELSE "ok"

\* RefreshToken(raw): the signature verifies (the token is one the service
\* signed), it has not expired, and its jti is not in the blacklist
TokenError(t) ==
    IF t \notin DOMAIN tokens THEN MsgTokenNotValid
    ELSE IF now >= tokens[t].exp THEN MsgTokenNotValid
    ELSE IF t \in blacklist THEN MsgBlacklisted
    ELSE "ok"

\* the authentication that looks the refresh token of the pair up in the
\* blacklist as well
AccessError_ChecksBlacklist(a) ==
    IF a = 0 THEN MsgNoCredentials
    ELSE IF a \notin DOMAIN tokens THEN MsgBadAccess
    ELSE IF now >= tokens[a].exp - REFRESH_TOKEN_LIFETIME + ACCESS_TOKEN_LIFETIME
         THEN MsgBadAccess
    ELSE IF a \in blacklist THEN MsgBadAccess
    ELSE IF ~users[tokens[a].user].is_active THEN MsgInactive
    ELSE "ok"

\* JWTAuthentication on the Authorization header, a the access token of pair
\* a (0: no header): the access token expires ACCESS_TOKEN_LIFETIME after
\* the pair was signed, and its user must be active
AccessError(a) ==
    IF a = 0 THEN MsgNoCredentials
    ELSE IF a \notin DOMAIN tokens THEN MsgBadAccess
    ELSE IF now >= tokens[a].exp - REFRESH_TOKEN_LIFETIME + ACCESS_TOKEN_LIFETIME
         THEN MsgBadAccess
    ELSE IF ~users[tokens[a].user].is_active THEN MsgInactive
    ELSE "ok"

AccessErrorClass(a) ==
    CASE AccessError(a) = MsgNoCredentials -> "NotAuthenticated"
      [] AccessError(a) = MsgBadAccess     -> "InvalidToken"
      [] OTHER                             -> "AuthenticationFailed"

\* requests that will still sign a rotated refresh token
Rotating == { q \in Workers : pc[q] = "refresh_rotate" }

---------------------------------------------------------------------------
(* MeView.get *)

\* permission IsAuthenticated, then lines 449-451: the profile of request.user
Me(p, a) ==
    /\ pc[p] = "idle"
    /\ IF AccessError(a) # "ok"
       THEN Finish(p, Failure("me", <<>>, AccessErrorClass(a), 401, AccessError(a)))
       ELSE Finish(p, Reply("me", users[tokens[a].user].email, 200, ""))
    /\ UNCHANGED <<users, codes, now, verified, tokens, blacklist>>

---------------------------------------------------------------------------
(* LogoutView.post *)

\* the refresh token blacklisted without being verified first
LogoutStart_NoVerify(p, a, t) ==
    /\ pc[p] = "idle"
    /\ IF AccessError(a) # "ok"
       THEN Finish(p, Failure("logout", <<>>, AccessErrorClass(a), 401, AccessError(a)))
       ELSE Goto(p, "logout_blacklist", [email |-> <<>>, token |-> t])
    /\ UNCHANGED <<users, codes, now, verified, tokens, blacklist>>

\* permission IsAuthenticated, then lines 497-505: RefreshToken(refresh_token)
LogoutStart(p, a, t) ==
    /\ pc[p] = "idle"
    /\ IF AccessError(a) # "ok"
       THEN Finish(p, Failure("logout", <<>>, AccessErrorClass(a), 401, AccessError(a)))
       ELSE IF TokenError(t) # "ok"
            THEN Finish(p, Invalid("logout", <<>>, MsgBadRefresh))
            ELSE Goto(p, "logout_blacklist", [email |-> <<>>, token |-> t])
    /\ UNCHANGED <<users, codes, now, verified, tokens, blacklist>>

\* lines 506-507: token.blacklist() is a get_or_create on the blacklist
LogoutBlacklist(p) ==
    /\ pc[p] = "logout_blacklist"
    /\ blacklist' = blacklist \cup {loc[p].token}
    /\ Finish(p, [Reply("logout", <<>>, 200, MsgLoggedOut)
                     EXCEPT !.token = loc[p].token])
    /\ UNCHANGED <<users, codes, now, verified, tokens>>

---------------------------------------------------------------------------
(* TokenRefreshView.post (urls.py), under ROTATE_REFRESH_TOKENS and        *)
(* BLACKLIST_AFTER_ROTATION                                                *)

\* the presented token blacklisted before its user is looked up
RefreshStart_BlacklistsFirst(p, t) ==
    /\ pc[p] = "idle"
    /\ Len(tokens) + Cardinality(Rotating) < MaxTokens
    /\ IF TokenError(t) # "ok"
       THEN /\ Finish(p, Failure("refresh", <<>>, "InvalidToken", 401, TokenError(t)))
            /\ UNCHANGED blacklist
       ELSE /\ blacklist' = blacklist \cup {t}
            /\ IF ~users[tokens[t].user].is_active
               THEN Finish(p, Failure("refresh", <<>>, "AuthenticationFailed", 401,
                                      MsgNoActiveAccount))
               ELSE Goto(p, "refresh_rotate", [email |-> <<>>, token |-> t])
    /\ UNCHANGED <<users, codes, now, verified, tokens>>

\* TokenRefreshSerializer.validate: the token is verified, then its user is
\* looked up and must be active
RefreshStart(p, t) ==
    /\ pc[p] = "idle"
    /\ Len(tokens) + Cardinality(Rotating) < MaxTokens
    /\ IF TokenError(t) # "ok"
       THEN Finish(p, Failure("refresh", <<>>, "InvalidToken", 401, TokenError(t)))
       ELSE IF ~users[tokens[t].user].is_active
            THEN Finish(p, Failure("refresh", <<>>, "AuthenticationFailed", 401,
                                   MsgNoActiveAccount))
            ELSE Goto(p, "refresh_rotate", [email |-> <<>>, token |-> t])
    /\ UNCHANGED <<users, codes, now, verified, tokens, blacklist>>

\* refresh.blacklist() (a get_or_create), then a new jti and expiry are set
\* and the pair is signed
RefreshRotate(p) ==
    /\ pc[p] = "refresh_rotate"
    /\ Len(tokens) < MaxTokens
    /\ blacklist' = blacklist \cup {loc[p].token}
    /\ tokens' = Append(tokens, TokenFor(tokens[loc[p].token].user))
    /\ Finish(p, [Reply("refresh", <<>>, 200, "") EXCEPT !.token = Len(tokens) + 1])
    /\ UNCHANGED <<users, codes, now, verified>>

---------------------------------------------------------------------------
(* UserAdmin: the admin site edits the flags of a user, between requests *)

AdminSetActive(i, b) ==
    /\ \A p \in Workers : pc[p] = "idle"
    /\ i \in DOMAIN users
    /\ users[i].is_active # b
    /\ users' = [users EXCEPT ![i].is_active = b]
    /\ out' = NoOut
    /\ UNCHANGED <<codes, now, pc, loc, verified, tokens, blacklist, before>>

AdminSetVerified(i, b) ==
    /\ \A p \in Workers : pc[p] = "idle"
    /\ i \in DOMAIN users
    /\ users[i].is_verified # b
    /\ users' = [users EXCEPT ![i].is_verified = b]
    /\ out' = NoOut
    /\ UNCHANGED <<codes, now, pc, loc, verified, tokens, blacklist, before>>

---------------------------------------------------------------------------
Tick(d) ==
    /\ now + d <= MaxNow
    /\ now' = now + d
    /\ out' = NoOut
    /\ UNCHANGED <<users, codes, pc, loc, verified, tokens, blacklist, before>>

\* the clock passes the lifetime of an access token
LongTick(d) ==
    /\ now + d <= MaxLate
    /\ now' = now + d
    /\ out' = NoOut
    /\ UNCHANGED <<users, codes, pc, loc, verified, tokens, blacklist, before>>

\* a worker takes a request, its addresses drawn from E
Begin(p, E) ==
    \/ \E e \in E : SendCodeStart(p, e)
    \/ \E e \in E, c \in Codes : VerifyCodeStart(p, e, c)
    \/ \E e \in E, pw \in Passwords :
          \E cf \in Confirmations(pw) : RegisterStart(p, e, pw, cf)

\* a worker runs the next statement of its handler
Step(p) ==
    \/ SendCodeInvalidate(p)
    \/ \E c \in GeneratedCodes : SendCodeCreate(p, c)
    \/ \E d \in BOOLEAN : SendCodeMail(p, d)
    \/ VerifyCodeSave(p)
    \/ RegisterExists(p)
    \/ RegisterSave(p)

\* Requests of two workers interleave statement by statement; they race on
\* one address.
Next ==
    \/ \E p \in Workers : Begin(p, RaceEmails)
    \/ \E p \in Workers : Step(p)
    \/ \E d \in TickSteps : Tick(d)

Spec == Init /\ [][Next]_vars

\* Requests served one at a time, by a single worker: a request is taken
\* only when the one before it has returned.
SeqWorkers == { 1 }

SeqNext ==
    \/ \E p \in SeqWorkers : Begin(p, RawEmails)
    \/ \E p \in SeqWorkers : Step(p)
    \/ \E d \in TickSteps : Tick(d)

SeqSpec == Init /\ [][SeqNext]_vars

(* The whole service: sign-up for one address, login, logout and refresh *)

LoginPasswords == { GoodPw, NumPw }

\* the code the generator draws for this address (its other draws are
\* explored by Spec and SeqSpec)
SignUpCode == "12345"

\* the next statement of a sign-up handler
SignUpStep(p) ==
    \/ SendCodeInvalidate(p)
    \/ SendCodeCreate(p, SignUpCode)
    \/ \E d \in BOOLEAN : SendCodeMail(p, d)
    \/ VerifyCodeSave(p)
    \/ RegisterExists(p)
    \/ RegisterSave(p)

\* what a client can present as a token: the jti of a signed token, or one
\* the service never signed
TokenIds == 1 .. MaxTokens

\* the Authorization header: none (0), or the access token of a pair
AccessIds == 0 .. MaxTokens

AuthBegin(p) ==
    \/ \E e \in RaceEmails : SendCodeStart(p, e)
    \/ \E e \in RaceEmails, c \in Codes : VerifyCodeStart(p, e, c)
    \/ \E e \in RaceEmails, cf \in Confirmations(GoodPw) :
          RegisterStart(p, e, GoodPw, cf)
    \/ \E e \in RaceEmails : CheckEmail(p, e)
    \/ \E e \in RaceEmails, pw \in LoginPasswords : Login(p, e, pw)
    \/ \E a \in AccessIds, t \in TokenIds : LogoutStart(p, a, t)
    \/ \E t \in TokenIds : RefreshStart(p, t)

AuthStep(p) ==
    \/ SignUpStep(p)
    \/ LogoutBlacklist(p)
    \/ RefreshRotate(p)

Admin ==
    \/ \E i \in 1 .. MaxUsers, b \in BOOLEAN : AdminSetActive(i, b)
    \/ \E i \in 1 .. MaxUsers, b \in BOOLEAN : AdminSetVerified(i, b)

\* one request at a time
SeqAuthNext ==
    \/ \E p \in SeqWorkers : AuthBegin(p)
    \/ \E p \in SeqWorkers : AuthStep(p)
    \/ \E d \in TickSteps : Tick(d)

SeqAuthSpec == Init /\ [][SeqAuthNext]_vars

\* one request at a time, and the admin site editing users between requests
ServiceNext ==
    \/ SeqAuthNext
    \/ Admin

ServiceSpec == Init /\ [][ServiceNext]_vars

(* Token requests of two clients, interleaved statement by statement, on   *)
(* an account that one of them signs up first                              *)

TokenEmail == <<"a", "@", "x">>

SignUp(p) ==
    \/ SendCodeStart(p, TokenEmail)
    \/ \E c \in Codes : VerifyCodeStart(p, TokenEmail, c)
    \/ RegisterStart(p, TokenEmail, GoodPw, GoodPw)
    \/ SignUpStep(p)

TokenRequest(p) ==
    \/ Login(p, TokenEmail, GoodPw)
    \/ \E a \in AccessIds, t \in TokenIds : LogoutStart(p, a, t)
    \/ \E t \in TokenIds : RefreshStart(p, t)
    \/ LogoutBlacklist(p)
    \/ RefreshRotate(p)

TokenNext ==
    \/ \E p \in SeqWorkers : SignUp(p)
    \/ \E p \in Workers : TokenRequest(p)

TokenSpec == Init /\ [][TokenNext]_vars

(* One account's token pairs over the lifetime of an access token, one     *)
(* request at a time                                                       *)

LateSteps == {ACCESS_TOKEN_LIFETIME - 1, ACCESS_TOKEN_LIFETIME}

AccessNext ==
    \/ \E p \in SeqWorkers : SendCodeStart(p, TokenEmail)
    \/ \E p \in SeqWorkers : VerifyCodeStart(p, TokenEmail, SignUpCode)
    \/ \E p \in SeqWorkers : RegisterStart(p, TokenEmail, GoodPw, GoodPw)
    \/ \E p \in SeqWorkers : SignUpStep(p)
    \/ \E p \in SeqWorkers : Login(p, TokenEmail, GoodPw)
    \/ \E p \in SeqWorkers, a \in AccessIds : Me(p, a)
    \/ \E p \in SeqWorkers, a \in AccessIds, t \in TokenIds : LogoutStart(p, a, t)
    \/ \E p \in SeqWorkers : LogoutBlacklist(p)
    \/ \E d \in LateSteps : LongTick(d)

AccessSpec == Init /\ [][AccessNext]_vars

(* Requests that spell their addresses in capitals, one at a time          *)

CaseEmails == { <<"A", "@", "x">>, <<"B", "@", "X">> }

CaseNext ==
    \/ \E p \in SeqWorkers, e \in CaseEmails : SendCodeStart(p, e)
    \/ \E p \in SeqWorkers, e \in CaseEmails, c \in Codes : VerifyCodeStart(p, e, c)
    \/ \E p \in SeqWorkers, e \in CaseEmails, cf \in Confirmations(GoodPw) :
          RegisterStart(p, e, GoodPw, cf)
    \/ \E p \in SeqWorkers : SignUpStep(p)
    \/ \E p \in SeqWorkers, e \in CaseEmails : CheckEmail(p, e)
    \/ \E p \in SeqWorkers, e \in CaseEmails, pw \in LoginPasswords : Login(p, e, pw)

CaseSpec == Init /\ [][CaseNext]_vars

(* Token pairs of two accounts, one request at a time                      *)

PairEmails == { <<"a", "@", "x">>, <<"b", "@", "x">> }

PairNext ==
    \/ \E p \in SeqWorkers, e \in PairEmails : SendCodeStart(p, e)
    \/ \E p \in SeqWorkers, e \in PairEmails : VerifyCodeStart(p, e, SignUpCode)
    \/ \E p \in SeqWorkers, e \in PairEmails : RegisterStart(p, e, GoodPw, GoodPw)
    \/ \E p \in SeqWorkers : SignUpStep(p)
    \/ \E p \in SeqWorkers, e \in PairEmails : Login(p, e, GoodPw)
    \/ \E p \in SeqWorkers, a \in AccessIds : Me(p, a)

PairSpec == Init /\ [][PairNext]_vars

---------------------------------------------------------------------------
(* Vocabulary of the properties, written on the tables themselves *)

StoredEmails == { Lower(e) : e \in RawEmails }

RowsOf(email) == { i \in DOMAIN codes : codes[i].email = email }

UnusedRowsOf(email) == { i \in RowsOf(email) : ~codes[i].is_used }

UsedRowsOf(email) == { i \in RowsOf(email) : codes[i].is_used }

UsersOf(email) == { i \in DOMAIN users : users[i].email = email }

---------------------------------------------------------------------------
\* C1: every user created by Register has an email for which a VerifyCode
\* call answered 200 before the Register call.
C1_RegisteredOnlyAfterVerify ==
    \A i \in DOMAIN users : users[i].email \in verified

\* C2: with requests served one at a time, every reachable state holds at
\* most one unused code row per email.
C2_AtMostOneUnused ==
    \A email \in StoredEmails : Cardinality(UnusedRowsOf(email)) <= 1

\* C2 witness: a SendCode has answered 200 for an email that had a code
\* already; the older row is used and the new one is the only unused row.
C2_Witness ==
    /\ out.op = "send_code" /\ out.status = 200
    /\ Cardinality(RowsOf(out.email)) >= 2
    /\ Cardinality(UnusedRowsOf(out.email)) = 1
    /\ UsedRowsOf(out.email) # {}

\* C3: under every interleaving of two SendCode requests for one email, no
\* state holds two unused code rows for that email.
C3_NoTwoUnusedUnderInterleaving ==
    ~ \E i, j \in DOMAIN codes :
        /\ i < j
        /\ codes[i].email = codes[j].email
        /\ ~codes[i].is_used
        /\ ~codes[j].is_used

\* C4: of two concurrent VerifyCode requests presenting the same valid code,
\* exactly one succeeds: a request answers 200 only by consuming a row that
\* was still unused when it marked it used.
C4_OneSuccessPerCode ==
    [][ \A p \in Workers :
          (pc[p] = "verify_save" /\ pc'[p] = "idle" /\ out'.status = 200)
              => ~codes[loc[p].row].is_used ]_vars

\* the row of an email inserted last, and the one inserted before it
LastRow(email) == CHOOSE i \in RowsOf(email) : \A j \in RowsOf(email) : j <= i

PrevRow(email) ==
    CHOOSE i \in RowsOf(email) \ {LastRow(email)} :
        \A j \in RowsOf(email) \ {LastRow(email)} : j <= i

\* two codes were issued for the email and nothing has consumed the second
TwiceIssued(email) ==
    /\ Cardinality(RowsOf(email)) >= 2
    /\ ~codes[LastRow(email)].is_used

\* worker p takes a VerifyCode request in this step: it answers at once or
\* goes on to mark the row used
VerifyStep(p) ==
    pc[p] = "idle" /\ (out'.op = "verify_code" \/ pc'[p] = "verify_save")

\* C5 as stated: after two SendCode(E) in a row, VerifyCode(E, first code)
\* fails and VerifyCode(E, second code), before its expiry, succeeds.
C5_OnlySecondCodeValid ==
    [][ \A p \in SeqWorkers : VerifyStep(p) =>
          \A e \in RawEmails, c \in Codes :
          (TwiceIssued(Lower(e)) /\ VerifyCodeStart(p, e, c)) =>
              LET first  == codes[PrevRow(Lower(e))]
                  second == codes[LastRow(Lower(e))]
              IN  /\ c = first.code => out'.status = 400
                  /\ (c = second.code /\ now < second.expires_at)
                        => pc'[p] = "verify_save" ]_vars

\* C5 amended: after two SendCode(E) in a row, VerifyCode(E, second code),
\* before its expiry, succeeds with 200, and VerifyCode(E, first code) fails
\* as an invalid code unless the generator drew the same code twice.
C5_SecondCodeValidFirstFailsUnlessEqual ==
    [][ /\ \A p \in SeqWorkers : VerifyStep(p) =>
              \A e \in RawEmails, c \in Codes :
              (TwiceIssued(Lower(e)) /\ VerifyCodeStart(p, e, c)) =>
                  LET first  == codes[PrevRow(Lower(e))]
                      second == codes[LastRow(Lower(e))]
                  IN  /\ (c = first.code /\ c # second.code) =>
                            /\ out'.status = 400
                            /\ out'.message = MsgInvalidCode
                            /\ codes' = codes
                      /\ (c = second.code /\ now < second.expires_at)
                            => /\ pc'[p] = "verify_save"
                               /\ loc'[p].row = LastRow(Lower(e))
        /\ \A p \in SeqWorkers :
              (pc[p] = "verify_save" /\ pc'[p] # "verify_save") =>
                  /\ out' = Reply("verify_code", loc[p].email, 200, MsgVerified)
                  /\ codes'[loc[p].row].is_used ]_vars

\* C5 witness: the first of two different codes issued for an email was
\* presented and refused, the second still being unused.
C5_Witness ==
    /\ out.op = "verify_code" /\ out.message = MsgInvalidCode
    /\ TwiceIssued(out.email)
    /\ codes[PrevRow(out.email)].code # codes[LastRow(out.email)].code
    /\ now < codes[LastRow(out.email)].expires_at

\* C6: is_used never goes back from true to false, no code row is deleted or
\* rewritten, and VerifyCode answers 200 only for a row that was unused until
\* then (a used code is never validated again).
C6_UsedIsTerminal ==
    [][ /\ Len(codes') >= Len(codes)
        /\ \A i \in DOMAIN codes :
              /\ i \in DOMAIN codes'
              /\ codes'[i].email = codes[i].email
              /\ codes'[i].code = codes[i].code
              /\ codes[i].is_used => codes'[i].is_used
        /\ (out'.op = "verify_code" /\ out'.status = 200) =>
              \E i \in DOMAIN codes :
                  /\ codes[i].email = out'.email
                  /\ ~codes[i].is_used
                  /\ codes'[i].is_used ]_vars

\* C6 witness: an email whose code was consumed by a successful VerifyCode
\* has presented a code again and was refused, all its rows staying used.
C6_Witness ==
    /\ out.op = "verify_code" /\ out.message = MsgInvalidCode
    /\ out.email \in verified
    /\ RowsOf(out.email) # {}
    /\ UnusedRowsOf(out.email) = {}

\* C7: VerifyCode on a matching unused row whose expiry time has passed fails
\* with the expired-code error and changes no row (the row stays unused).
C7_ExpiredLeavesRowUnused ==
    [][ \A p \in SeqWorkers : VerifyStep(p) =>
          \A e \in RawEmails, c \in Codes :
          LET m == { i \in UnusedRowsOf(Lower(e)) : codes[i].code = c } IN
          (m # {} /\ (\A i \in m : now >= codes[i].expires_at)
                /\ VerifyCodeStart(p, e, c)) =>
              /\ out' = Invalid("verify_code", Lower(e), MsgExpired)
              /\ pc'[p] = "idle"
              /\ codes' = codes
              /\ users' = users ]_vars

\* C7 witness: the expired-code error was answered and the email still has
\* an unused row past its expiry time.
C7_Witness ==
    /\ out.op = "verify_code" /\ out.status = 400 /\ out.message = MsgExpired
    /\ \E i \in UnusedRowsOf(out.email) : now >= codes[i].expires_at

\* worker p takes a Register request in this step: it answers at once or goes
\* on to the user-exists check; the address the handler works on
RegisterStep(p) ==
    pc[p] = "idle" /\ (out'.op = "register" \/ pc'[p] = "register_exists")

StepEmail(p) == IF out'.op = "none" THEN loc'[p].email ELSE out'.email

\* C8 as stated: Register for an email with no used code row fails with the
\* email-not-verified error whatever the password, and creates no user.
C8_NotVerifiedWhateverThePassword ==
    [][ \A p \in SeqWorkers : RegisterStep(p) =>
          \A e \in RawEmails :
          (Lower(e) = StepEmail(p) /\ UsedRowsOf(Lower(e)) = {}) =>
          \A pw \in Passwords : \A cf \in Confirmations(pw) :
          RegisterStart(p, e, pw, cf) =>
              /\ out'.status = 400
              /\ out'.message = MsgNotVerified
              /\ users' = users ]_vars

\* C8 amended: Register for an email with no used code row always fails with
\* status 400 and creates no user; the error is email-not-verified when the
\* password passes the policy and equals its confirmation, and the password
\* error otherwise.
C8_NoUsedCodeNoUser ==
    [][ \A p \in SeqWorkers : RegisterStep(p) =>
          \A e \in RawEmails :
          (Lower(e) = StepEmail(p) /\ UsedRowsOf(Lower(e)) = {}) =>
          \A pw \in Passwords : \A cf \in Confirmations(pw) :
          RegisterStart(p, e, pw, cf) =>
              /\ out'.op = "register" /\ out'.status = 400
              /\ pc'[p] = "idle"
              /\ users' = users /\ codes' = codes
              /\ (pw = GoodPw /\ cf = pw) => out'.message = MsgNotVerified
              /\ ~(pw = GoodPw /\ cf = pw)
                    => out'.message \in {MsgTooShort, MsgNumeric, MsgMismatch} ]_vars

\* C8 witness: Register answered email-not-verified for an email that has a
\* code row, none of them used.
C8_Witness ==
    /\ out.op = "register" /\ out.status = 400 /\ out.message = MsgNotVerified
    /\ RowsOf(out.email) # {}
    /\ UsedRowsOf(out.email) = {}
    /\ UsersOf(out.email) = {}

\* C9 as stated: Register with password different from password_confirm
\* always reports the mismatch, before every other check.
C9_MismatchFirst ==
    [][ \A p \in SeqWorkers : RegisterStep(p) =>
          \A e \in RawEmails : Lower(e) = StepEmail(p) =>
          \A pw \in Passwords : \A cf \in Confirmations(pw) \ {pw} :
          RegisterStart(p, e, pw, cf) =>
              /\ out'.status = 400
              /\ out'.message = MsgMismatch ]_vars

\* C9 amended: Register with password different from password_confirm fails
\* with status 400 and changes nothing; it reports the mismatch, before the
\* email-verified and user-exists checks, when the password passes the
\* strength policy, and the strength error when it does not.
C9_MismatchAfterStrengthOnly ==
    [][ \A p \in SeqWorkers : RegisterStep(p) =>
          \A e \in RawEmails : Lower(e) = StepEmail(p) =>
          \A pw \in Passwords : \A cf \in Confirmations(pw) \ {pw} :
          RegisterStart(p, e, pw, cf) =>
              /\ out'.op = "register" /\ out'.status = 400
              /\ pc'[p] = "idle"
              /\ users' = users /\ codes' = codes
              /\ pw = GoodPw => out'.message = MsgMismatch
              /\ pw = ShortPw => out'.message = MsgTooShort
              /\ pw = NumPw => out'.message = MsgNumeric ]_vars

\* C9 witness: the mismatch was reported for an email that has no used code
\* row, so the email-verified check would have failed too.
C9_Witness ==
    /\ out.op = "register" /\ out.status = 400 /\ out.message = MsgMismatch
    /\ UsedRowsOf(out.email) = {}

\* C10: in every reachable state, interleaved Register requests included, no
\* two users share an email and every stored user email is lowercase.
C10_UniqueLowercaseEmails ==
    /\ \A i, j \in DOMAIN users : users[i].email = users[j].email => i = j
    /\ \A i \in DOMAIN users :
          \A k \in DOMAIN users[i].email : users[i].email[k] \notin {"A", "B", "X"}

\* C10 witness: of two Register requests that both passed the user-exists
\* check, the second insert was refused; the email has exactly one user.
C10_Witness ==
    /\ out.op = "register" /\ out.status = 500
    /\ Cardinality(UsersOf(out.email)) = 1

\* worker p takes a refresh request in this step: it answers at once or goes
\* on to rotate the token
RefreshStep(p) ==
    pc[p] = "idle" /\ (out'.op = "refresh" \/ pc'[p] = "refresh_rotate")

\* C11: once Logout has answered 200 for a refresh token the token is on the
\* blacklist, nothing ever takes a token off the blacklist, and every
\* refresh request that presents a blacklisted token is refused with the
\* InvalidToken error and signs no new pair.
C11_RevokedNeverRefreshes ==
    [][ /\ blacklist \subseteq blacklist'
        /\ (out'.op = "logout" /\ out'.status = 200) => out'.token \in blacklist'
        /\ \A p \in Workers : RefreshStep(p) =>
              \A t \in TokenIds : (t \in blacklist /\ RefreshStart(p, t)) =>
                  /\ out'.op = "refresh" /\ out'.status = 401
                  /\ out'.code = "InvalidToken"
                  /\ pc'[p] = "idle"
                  /\ tokens' = tokens ]_vars

\* C11 witness: a refresh was refused for a blacklisted token while only one
\* token had ever been signed, so it was Logout that revoked it (a rotation
\* would have signed a second one).
C11_Witness ==
    /\ out.op = "refresh" /\ out.status = 401 /\ out.message = MsgBlacklisted
    /\ Len(tokens) = 1
    /\ blacklist = {1}

\* C12: each refresh token yields at most one new pair, also when two refresh
\* requests present it concurrently: a request signs a new pair only for a
\* token that was not yet blacklisted when it rotated it.
C12_OnePairPerRefreshToken ==
    [][ \A p \in Workers :
          (pc[p] = "refresh_rotate" /\ pc'[p] = "idle" /\ out'.status = 200)
              => loc[p].token \notin blacklist ]_vars

\* worker p answers a Login request in this step
LoginStep(p) == pc[p] = "idle" /\ out'.op = "login"

\* the stored user of an address has this password
RightPassword(email, pw) ==
    UserExists(email) /\ users[UserByEmail(email)].password = pw

\* C13: Login fails with the invalid-credentials error when the email has no
\* user and when the password is wrong; with the account-disabled error when
\* the credentials are right and is_active is false; with the
\* email-not-verified error when the credentials are right, the user is
\* active and is_verified is false; otherwise it answers 200 with a new
\* token pair.
C13_LoginErrors ==
    [][ \A p \in SeqWorkers : LoginStep(p) =>
          \A e \in RaceEmails : \A pw \in LoginPasswords : Login(p, e, pw) =>
              LET email == Lower(e)
                  right == RightPassword(email, pw)
                  user  == users[UserByEmail(email)]
              IN  /\ ~right =>
                        out'.status = 400 /\ out'.message = MsgBadLogin
                  /\ (right /\ ~user.is_active) =>
                        out'.status = 400 /\ out'.message = MsgDisabled
                  /\ (right /\ user.is_active /\ ~user.is_verified) =>
                        out'.status = 400 /\ out'.message = MsgLoginUnverified
                  /\ (right /\ user.is_active /\ user.is_verified) =>
                        /\ out'.status = 200
                        /\ out'.token = Len(tokens) + 1
                        /\ Len(tokens') = Len(tokens) + 1 ]_vars

\* C14: a Login request with the right password by an active user whose
\* is_verified is false is answered with status 400 and an error body whose
\* code field is email_not_verified.
C14_UnverifiedLoginCode ==
    [][ \A p \in SeqWorkers : LoginStep(p) =>
          \A e \in RaceEmails : \A pw \in LoginPasswords :
          (/\ RightPassword(Lower(e), pw)
           /\ users[UserByEmail(Lower(e))].is_active
           /\ ~users[UserByEmail(Lower(e))].is_verified
           /\ Login(p, e, pw)) =>
              /\ out'.status = 400
              /\ out'.code = "email_not_verified" ]_vars

\* C15: Register reports each failure with its own machine code, all with
\* status 400: email_not_verified when the email has no used code,
\* user_exists when the email has a user, password_mismatch when the two
\* passwords differ.
C15_RegisterErrorCodes ==
    out.op = "register" =>
        /\ out.message = MsgNotVerified =>
              out.status = 400 /\ out.code = "email_not_verified"
        /\ out.message = MsgUserExists =>
              out.status = 400 /\ out.code = "user_exists"
        /\ out.message = MsgMismatch =>
              out.status = 400 /\ out.code = "password_mismatch"

\* worker p takes a SendCode request in this step: it answers at once or
\* goes on to invalidate the older codes
SendStep(p) ==
    pc[p] = "idle" /\ (out'.op = "send_code" \/ pc'[p] = "send_invalidate")

\* C16: SendCode for an address whose lowercased form has a user fails with
\* the user-exists error at once: the handler ends there, so no code row is
\* invalidated or created and the mail step is never reached.
C16_SendCodeRefusedForUser ==
    [][ \A p \in SeqWorkers : SendStep(p) =>
          \A e \in RawEmails : (UserExists(Lower(e)) /\ SendCodeStart(p, e)) =>
              /\ out' = Invalid("send_code", Lower(e), MsgUserExists)
              /\ pc'[p] = "idle"
              /\ codes' = codes
              /\ users' = users ]_vars

\* C16 witness: SendCode was refused for a registered email that still has
\* an unused code row.
C16_Witness ==
    /\ out.op = "send_code" /\ out.status = 400 /\ out.message = MsgUserExists
    /\ UsersOf(out.email) # {}
    /\ UnusedRowsOf(out.email) # {}

\* C17: when the mail dispatch of SendCode fails the request answers an
\* error and nothing is rolled back: the code row just created stays stored
\* with is_used false and the older rows of the email stay used.
C17_MailFailureKeepsCode ==
    [][ \A p \in SeqWorkers : (pc[p] = "send_mail" /\ SendCodeMail(p, FALSE)) =>
          /\ out' = Invalid("send_code", loc[p].email, MsgMailFailed)
          /\ codes' = codes
          /\ codes'[Len(codes')].email = loc[p].email
          /\ ~codes'[Len(codes')].is_used
          /\ \A i \in DOMAIN codes' :
                (i # Len(codes') /\ codes'[i].email = loc[p].email)
                    => codes'[i].is_used ]_vars

\* C17 witness: SendCode answered the mail error for an email with an older
\* code; the older row is used and the new one is stored unused.
C17_Witness ==
    /\ out.op = "send_code" /\ out.status = 400 /\ out.message = MsgMailFailed
    /\ Cardinality(RowsOf(out.email)) >= 2
    /\ ~codes[LastRow(out.email)].is_used
    /\ codes[PrevRow(out.email)].is_used

\* the tables as they were when the request worker p is serving began
Started(p) == IF pc[p] = "idle" THEN Tables ELSE before[p]

\* C18 as stated: every request that answers an error leaves the users, the
\* verification codes and the blacklist as they were when it began.
C18_ErrorsChangeNothing ==
    [][ \A p \in SeqWorkers :
          out'.status >= 400 => <<users', codes', blacklist'>> = Started(p) ]_vars

\* C18 amended: every request that answers an error leaves the users, the
\* verification codes and the blacklist as they were when it began, except
\* SendCode failing on the mail dispatch, which leaves users and blacklist
\* as they were and keeps the code row it inserted.
C18_ErrorsChangeNothingButMailFailure ==
    [][ \A p \in SeqWorkers :
          /\ (out'.status >= 400 /\ out'.message # MsgMailFailed)
                => <<users', codes', blacklist'>> = Started(p)
          /\ (out'.status >= 400 /\ out'.message = MsgMailFailed)
                => /\ users' = Started(p)[1]
                   /\ blacklist' = Started(p)[3]
                   /\ Len(codes') = Len(Started(p)[2]) + 1 ]_vars

\* C18 witness: a refresh request was refused because the user of its token
\* is deactivated, and the token is still off the blacklist.
C18_Witness ==
    /\ out.op = "refresh" /\ out.status = 401 /\ out.message = MsgNoActiveAccount
    /\ \E t \in DOMAIN tokens : t \notin blacklist /\ ~users[tokens[t].user].is_active

\* worker p answers a CheckEmail request in this step
CheckStep(p) == pc[p] = "idle" /\ out'.op = "check_email"

\* C19: CheckEmail answers exists = true exactly when a user has the
\* lowercased address, and changes no table.
C19_CheckEmailPure ==
    [][ \A p \in SeqWorkers : CheckStep(p) =>
          \A e \in RaceEmails : CheckEmail(p, e) =>
              /\ out'.status = 200
              /\ out'.message \in {MsgUserFound, MsgNewUser}
              /\ (out'.message = MsgUserFound) <=> (UsersOf(Lower(e)) # {})
              /\ users' = users /\ codes' = codes
              /\ tokens' = tokens /\ blacklist' = blacklist ]_vars

\* C19 witness: CheckEmail answered that the user exists, for a registered
\* email.
C19_Witness ==
    /\ out.op = "check_email" /\ out.status = 200 /\ out.message = MsgUserFound
    /\ UsersOf(out.email) # {}

\* C20: for an email without a user, VerifyCode with the code issued last,
\* before its expiry, answers verified; Register with a conforming password
\* given twice, once the email was verified, answers 201 with a token pair
\* and creates the user with the lowercased email and is_verified set; a
\* Login with that email and password then answers 200 with a token pair.
C20_SignUpThenLogin ==
    [][ \A p \in SeqWorkers :
          /\ VerifyStep(p) =>
                \A e \in RaceEmails, c \in Codes :
                (/\ UsersOf(Lower(e)) = {}
                 /\ RowsOf(Lower(e)) # {}
                 /\ ~codes[LastRow(Lower(e))].is_used
                 /\ codes[LastRow(Lower(e))].code = c
                 /\ now < codes[LastRow(Lower(e))].expires_at
                 /\ VerifyCodeStart(p, e, c)) => pc'[p] = "verify_save"
          /\ (pc[p] = "verify_save" /\ pc'[p] = "idle") =>
                /\ out' = Reply("verify_code", loc[p].email, 200, MsgVerified)
                /\ \E i \in DOMAIN codes' :
                      codes'[i].email = loc[p].email /\ codes'[i].is_used
          /\ RegisterStep(p) =>
                \A e \in RaceEmails :
                (/\ UsersOf(Lower(e)) = {}
                 /\ Lower(e) \in verified
                 /\ RegisterStart(p, e, GoodPw, GoodPw)) =>
                    /\ pc'[p] = "register_exists"
                    /\ loc'[p] = [email |-> Lower(e), password |-> GoodPw]
          /\ (pc[p] = "register_exists" /\ UsersOf(loc[p].email) = {}
                 /\ pc'[p] # "register_exists") => pc'[p] = "register_save"
          /\ (pc[p] = "register_save" /\ UsersOf(loc[p].email) = {}
                 /\ pc'[p] = "idle") =>
                /\ out'.op = "register" /\ out'.status = 201
                /\ out'.email = loc[p].email
                /\ users' = Append(users, [email       |-> loc[p].email,
                                           password    |-> loc[p].password,
                                           is_active   |-> TRUE,
                                           is_verified |-> TRUE])
                /\ out'.token = Len(tokens')
                /\ Len(tokens') = Len(tokens) + 1
                /\ tokens'[Len(tokens')].user = Len(users')
          /\ LoginStep(p) =>
                \A e \in RaceEmails : \A pw \in LoginPasswords :
                (RightPassword(Lower(e), pw) /\ Login(p, e, pw)) =>
                    /\ out'.status = 200
                    /\ out'.email = Lower(e)
                    /\ out'.token = Len(tokens')
                    /\ Len(tokens') = Len(tokens) + 1
                    /\ tokens'[Len(tokens')].user = UserByEmail(Lower(e)) ]_vars

\* C20 witness: the straight sequence was run: one code issued and consumed,
\* one user, verified, the pair of Register and the pair of the Login that
\* just answered 200.
C20_Witness ==
    /\ out.op = "login" /\ out.status = 200
    /\ out.email \in verified
    /\ Len(codes) = 1 /\ codes[1].is_used
    /\ Len(users) = 1 /\ users[1].email = out.email /\ users[1].is_verified
    /\ Len(tokens) = 2

\* worker p takes a Logout request in this step: it answers at once or goes
\* on to blacklist the token
LogoutStep(p) ==
    pc[p] = "idle" /\ (out'.op = "logout" \/ pc'[p] = "logout_blacklist")

\* C21: an authenticated Logout that presents a refresh token already on the
\* blacklist fails with the invalid-token error and leaves the blacklist as
\* it is; no step takes a token off the blacklist; and of two Logout
\* requests for one token that run concurrently, the one that blacklists
\* second leaves the blacklist as the first made it.
C21_RevokeTwiceFails ==
    [][ /\ blacklist \subseteq blacklist'
        /\ \A p \in Workers : LogoutStep(p) =>
              \A a \in AccessIds, t \in TokenIds :
              (AccessError(a) = "ok" /\ t \in blacklist /\ LogoutStart(p, a, t)) =>
                  /\ out' = Invalid("logout", <<>>, MsgBadRefresh)
                  /\ pc'[p] = "idle"
                  /\ blacklist' = blacklist
        /\ \A p \in Workers :
              (pc[p] = "logout_blacklist" /\ pc'[p] = "idle"
                  /\ loc[p].token \in blacklist) => blacklist' = blacklist ]_vars

\* C21 witness: a Logout was refused with the invalid-token error when every
\* token the service can sign had been signed and revoked, so the token it
\* presented was a blacklisted one.
C21_Witness ==
    /\ out.op = "logout" /\ out.status = 400 /\ out.message = MsgBadRefresh
    /\ Len(tokens) = MaxTokens
    /\ blacklist = DOMAIN tokens

IssuedAt(a) == tokens[a].exp - REFRESH_TOKEN_LIFETIME

MeStep(p) == pc[p] = "idle" /\ out'.op = "me"

\* C22: logging out revokes the refresh token only: while the refresh token
\* of a pair is on the blacklist, the access token issued with it is still
\* accepted by the profile endpoint and by the logout endpoint until sixty
\* minutes after its issue, and is refused from then on.
C22_AccessTokenSurvivesLogout ==
    [][ \A p \in SeqWorkers, a \in TokenIds :
          (a \in DOMAIN tokens /\ a \in blacklist
              /\ users[tokens[a].user].is_active) =>
            /\ (MeStep(p) /\ Me(p, a)) =>
                  IF now < IssuedAt(a) + ACCESS_TOKEN_LIFETIME
                  THEN out' = Reply("me", users[tokens[a].user].email, 200, "")
                  ELSE out'.status = 401
            /\ LogoutStep(p) =>
                  \A t \in TokenIds : LogoutStart(p, a, t) =>
                      IF now < IssuedAt(a) + ACCESS_TOKEN_LIFETIME
                      THEN /\ out'.status # 401
                           /\ TokenError(t) = "ok" => pc'[p] = "logout_blacklist"
                      ELSE out'.status = 401 /\ pc'[p] = "idle" ]_vars

C22_Witness ==
    /\ out.op = "me" /\ out.status = 200
    /\ tokens # <<>>
    /\ blacklist = DOMAIN tokens
    /\ now = ACCESS_TOKEN_LIFETIME - 1

IssuedRows(email, c) == { i \in RowsOf(email) : codes[i].code = c }

\* C24: VerifyCode(E, C) gives one and the same failure, the invalid-code
\* error, when no row carries C for E and when every row that carries C for E
\* is already used (consumed or superseded), and it changes no row in either
\* case.
C24_UsedLooksLikeUnknown ==
    [][ \A p \in SeqWorkers : VerifyStep(p) =>
          \A e \in RawEmails, c \in Codes :
            (/\ VerifyCodeStart(p, e, c)
             /\ \/ IssuedRows(Lower(e), c) = {}
                \/ \A i \in IssuedRows(Lower(e), c) : codes[i].is_used) =>
                /\ out' = Invalid("verify_code", Lower(e), MsgInvalidCode)
                /\ pc'[p] = "idle"
                /\ codes' = codes
                /\ users' = users ]_vars

C24_Witness ==
    /\ out.op = "verify_code" /\ out.status = 400 /\ out.message = MsgInvalidCode
    /\ \A c \in Codes : IssuedRows(out.email, c) # {}
    /\ \A i \in RowsOf(out.email) : codes[i].is_used
    /\ out.email \in verified

InRegister(p) ==
    \/ RegisterStep(p)
    \/ pc[p] \in {"register_exists", "register_save"} /\ pc'[p] # pc[p]

IsLowercase(e) == \A i \in DOMAIN e : e[i] \notin {"A", "B", "X"}

\* C27: every request addressed with E does what the same request addressed
\* with lowercase(E) does, response and state change alike, for SendCode,
\* VerifyCode, Register, Login and CheckEmail; and every stored code row
\* carries a lowercase email.
C27_CaseInsensitive ==
    [][ /\ \A p \in SeqWorkers : pc[p] = "idle" =>
              \A e \in CaseEmails :
                /\ SendCodeStart(p, e) => SendCodeStart(p, Lower(e))
                /\ \A c \in Codes :
                      VerifyCodeStart(p, e, c) => VerifyCodeStart(p, Lower(e), c)
                /\ \A cf \in Confirmations(GoodPw) :
                      RegisterStart(p, e, GoodPw, cf)
                          => RegisterStart(p, Lower(e), GoodPw, cf)
                /\ \A pw \in LoginPasswords :
                      Login(p, e, pw) => Login(p, Lower(e), pw)
                /\ CheckEmail(p, e) => CheckEmail(p, Lower(e))
        /\ \A i \in DOMAIN codes' : IsLowercase(codes'[i].email) ]_vars

C27_Witness ==
    /\ out.op = "login" /\ out.status = 200
    /\ out.email = <<"b", "@", "x">>
    /\ UsersOf(<<"b", "@", "x">>) # {}
    /\ UsedRowsOf(<<"b", "@", "x">>) # {}
    /\ out.email \in verified

\* the codes EXCEPTION_CODE_MAP can give
MappedCodes ==
    {"validation_error", "not_authenticated", "invalid_credentials",
     "permission_denied", "not_found", "method_not_allowed"}

\* C28: every error response carries a code and a message; an exception of
\* the framework's API exception classes keeps its status, below 500, and
\* gets one of the six codes of EXCEPTION_CODE_MAP; every other exception is
\* answered with code server_error and status 500.
C28_ErrorEnvelope ==
    out.status >= 400 =>
        /\ out.message # ""
        /\ \/ out.status < 500 /\ out.code \in MappedCodes
           \/ out.status = 500 /\ out.code = "server_error"

\* C29: a VerifyCode request never answers success for a row that a SendCode
\* request has already invalidated: when the request writes the row and
\* answers 200, the row is not one that only an invalidation can have marked
\* used (no VerifyCode has succeeded for the email yet).
C29_NoSuccessOnSuperseded ==
    [][ \A p \in Workers :
          (pc[p] = "verify_save" /\ pc'[p] = "idle" /\ out'.status = 200) =>
              ~(codes[loc[p].row].is_used /\ loc[p].email \notin verified) ]_vars

\* C30: the users table changes only by a Register answering 201, which
\* appends one user and alters none; no other request creates or modifies a
\* user.  With requests executed one at a time, a code row is never inserted
\* for an email that a user holds, and no row changes its email.
C30_UsersAndCodesDecoupled ==
    [][ /\ users' # users =>
              /\ \E p \in SeqWorkers : pc[p] = "register_save" /\ pc'[p] = "idle"
              /\ out'.op = "register" /\ out'.status = 201
              /\ Len(users') = Len(users) + 1
              /\ SubSeq(users', 1, Len(users)) = users
              /\ users'[Len(users')].email = out'.email
        /\ (out'.op = "register" /\ out'.status = 201) => users' # users
        /\ Len(codes') >= Len(codes)
        /\ \A i \in DOMAIN codes : codes'[i].email = codes[i].email
        /\ \A i \in DOMAIN codes' \ DOMAIN codes :
              UsersOf(codes'[i].email) = {} ]_vars

C30_Witness ==
    /\ out.op = "send_code" /\ out.status = 400 /\ out.message = MsgUserExists
    /\ UsersOf(out.email) # {}
    /\ Len(tokens) >= 2
    /\ blacklist # {}

=========================================================================
